---- MODULE Spec2Model ----
(***************************************************************************)
(* A model of lib/riml.js: the RIML document compiler.                     *)
(*                                                                         *)
(* JavaScript strings are modelled as sequences of tokens.  The three      *)
(* one-character tokens ".", "|" and "/" stand for themselves; every other *)
(* token is a run of characters holding none of them.  A property name     *)
(* (key) is such a string: ".traits" is <<".", "traits">>.                 *)
(*                                                                         *)
(* JavaScript objects live in a heap: heap[a] is the object at address a,  *)
(* an insertion-ordered sequence of <<key, value>> pairs.  A value is a    *)
(* record [k, s, a]: k the kind, s the text of a string (or true/false of a*)
(* boolean), a the address of an object.  Arrays are objects with index    *)
(* keys, which is all the code ever uses of them (for-in, typeof).         *)
(***************************************************************************)
EXTENDS Integers, Sequences, FiniteSets, TLC

VARIABLES
  heap,        \* the objects built so far
  status,      \* "init", "loading", "parsed", "done" or "failed"
  error,       \* the name of the error thrown, "" when none
  raw,         \* the input as written (a literal), never changed
  source,      \* the value the constructor walks
  docProps,    \* the Document's common properties
  docOptions,  \* the Document's options
  docWalked,   \* the mapping addRoutes walked on the Document
  routes,      \* every Route built, in construction order
  fs,          \* the files on disk: resolved path -> literal
  included,    \* this.included: path -> mark
  sources,     \* this.sources: path -> retained mapping
  stack,       \* the loadFile calls in progress
  refs,        \* every includeFile call made, with what it returned
  traits,      \* this.traits: trait name -> fragment
  defs,        \* what each !define stored, as written
  uses         \* every !use made, with its outcome

vars == <<heap, status, error, raw, source, docProps, docOptions, docWalked,
          routes, fs, included, sources, stack, refs, traits, defs, uses>>

----------------------------------------------------------------------------
(* Values *)

K(t) == <<t>>

Str(s)  == [k |-> "str",   s |-> s,    a |-> 0]
Obj(a)  == [k |-> "obj",   s |-> <<>>, a |-> a]
Bool(b) == [k |-> "bool",  s |-> IF b THEN <<"true">> ELSE <<"false">>, a |-> 0]
Null    == [k |-> "null",  s |-> <<>>, a |-> 0]
Nan     == [k |-> "nan",   s |-> <<>>, a |-> 0]
Undef   == [k |-> "undef", s |-> <<>>, a |-> 0]

\* typeof v
TypeOf(v) ==
  CASE v.k = "str"   -> "string"
    [] v.k = "bool"  -> "boolean"
    [] v.k = "nan"   -> "number"
    [] v.k = "undef" -> "undefined"
    [] OTHER         -> "object"

\* v in a boolean position
Truthy(v) ==
  CASE v.k = "str"  -> v.s # <<>>
    [] v.k = "bool" -> v.s = <<"true">>
    [] v.k = "obj"  -> TRUE
    [] OTHER        -> FALSE

(* Objects *)

Has(m, k) == \E i \in 1..Len(m) : m[i][1] = k
Idx(m, k) == CHOOSE i \in 1..Len(m) : m[i][1] = k
Get(m, k) == IF Has(m, k) THEN m[Idx(m, k)][2] ELSE Undef
Put(m, k, v) ==
  IF Has(m, k) THEN [m EXCEPT ![Idx(m, k)] = <<k, v>>] ELSE Append(m, <<k, v>>)
Del(m, k) == SelectSeq(m, LAMBDA p : p[1] # k)
Keys(m) == [i \in 1..Len(m) |-> m[i][1]]

(* Literals: a document as written.  m holds the pairs of a mapping. *)

LStr(s)  == [k |-> "str",    s |-> s,    a |-> 0, m |-> <<>>]
LBool(b) == [k |-> "bool",   s |-> IF b THEN <<"true">> ELSE <<"false">>, a |-> 0, m |-> <<>>]
LNull    == [k |-> "null",   s |-> <<>>, a |-> 0, m |-> <<>>]
LNan     == [k |-> "nan",    s |-> <<>>, a |-> 0, m |-> <<>>]
LObj(m)  == [k |-> "obj",    s |-> <<>>, a |-> 0, m |-> m]
Absent   == [k |-> "absent", s |-> <<>>, a |-> 0, m |-> <<>>]

\* the pair k: o of a mapping, or nothing when o is Absent
Seg(k, o) == IF o = Absent THEN <<>> ELSE << <<k, o>> >>

RECURSIVE Load(_, _), LoadPairs(_, _, _)
\* yaml.load of a plain (untagged) node: a mapping becomes a fresh object
Load(h, lit) ==
  IF lit.k = "obj"
  THEN LET r == LoadPairs(h, lit.m, <<>>)
       IN [h |-> Append(r.h, r.m), v |-> Obj(Len(r.h) + 1)]
  ELSE [h |-> h, v |-> [k |-> lit.k, s |-> lit.s, a |-> 0]]
LoadPairs(h, pairs, acc) ==
  IF pairs = <<>> THEN [h |-> h, m |-> acc]
  ELSE LET r == Load(h, pairs[1][2])
       IN LoadPairs(r.h, Tail(pairs), Append(acc, <<pairs[1][1], r.v>>))

----------------------------------------------------------------------------
(* Property schemas *)

RIML_COMMON_PROPS ==
  << K("title"), K("description"), K("controller"), K("method"),
     K("apiType"), K("authType") >>

RIML_ROUTE_PROPS ==
  << K("name"), K("path"), K("http"), K("responseSchema"), K("requestSchema"),
     K("responseCodes"), K("pathParams"), K("queryParams"), K("headers"),
     K("tests"), K("examples"), K("defaultRoute"), K("redirect"),
     K("redirectRoute"), K("virtual"), K("noPath") >>

RIML_HTTP_PROPS ==
  << K("GET"), K("PUT"), K("POST"), K("DELETE"), K("PATCH"), K("HEAD") >>

RIML_API_PROPS == << K("json"), K("xml") >>

Range(s) == { s[i] : i \in 1..Len(s) }

----------------------------------------------------------------------------
(* addRoutes and the Route builder *)

\* line 144: a value for which addRoutes produces nothing
SkipsValue_null_kept(v) == v.k = "undef"
SkipsValue(v) == v.k \in {"undef", "null"}

\* line 145: rname.substr(0,1) === '.'
IsOptionKey_never(k) == FALSE
IsOptionKey(k) == k # <<>> /\ Head(k) = "."

\* line 147: rname.substr(1)
OptionName_unstripped(k) == k
OptionName(k) == Tail(k)

\* this.options[oname] = rdef, on the Document (owner 0) or on a Route
SetOption(st, owner, oname, v) ==
  IF owner = 0
  THEN [st EXCEPT !.opts = Put(@, oname, v)]
  ELSE [st EXCEPT !.routes[owner].options = Put(@, oname, v)]

RECURSIVE CopyProps(_, _, _)
\* the allow-list loop: this[pname] = rdef[pname] for each pname in rdef.
\* (The sub-entities built for the map and array properties are not modelled:
\* the property holds the raw value.)
CopyProps(props, rdef, names) ==
  IF names = <<>> THEN props
  ELSE CopyProps(IF Has(rdef, Head(names))
                 THEN Put(props, Head(names), Get(rdef, Head(names)))
                 ELSE props,
                 rdef, Tail(names))

\* delete rdef[pname] for every allow-listed pname
DropProps(rdef, names) == SelectSeq(rdef, LAMBDA p : p[1] \notin Range(names))

\* if (typeof rdef[name] !== 'object') rdef[name] = {}
Coerce(s, a, name) ==
  IF TypeOf(Get(s.h[a], name)) # "object"
  THEN [s EXCEPT !.h = Append([@ EXCEPT ![a] = Put(@, name, Obj(Len(s.h) + 1))], <<>>)]
  ELSE s

\* rdef[name][prop] = v; a TypeError when rdef[name] is null
Stamp(s, a, name, prop, v) ==
  LET t == Get(s.h[a], name)
  IN IF t.k # "obj" THEN [s EXCEPT !.err = "TypeError"]
     ELSE [s EXCEPT !.h[t.a] = Put(@, prop, v)]

\* if (!('path' in rdef[name])) rdef[name].path = false;
\* a TypeError when rdef[name] is undefined or null
DefaultPath(s, a, name) ==
  LET t == Get(s.h[a], name)
  IN IF t.k # "obj" THEN [s EXCEPT !.err = "TypeError"]
     ELSE IF Has(s.h[t.a], K("path")) THEN s
     ELSE [s EXCEPT !.h[t.a] = Put(@, K("path"), Bool(FALSE))]

RECURSIVE PromoteHttp(_, _, _)
\* lines 582-593
PromoteHttp(s, a, names) ==
  IF names = <<>> \/ s.err # "" THEN s
  ELSE LET hname == Head(names)
       IN IF ~Has(s.h[a], hname) THEN PromoteHttp(s, a, Tail(names))
          ELSE LET s1 == Stamp(Coerce(s, a, hname), a, hname, K("http"), Str(hname))
                   s2 == IF s1.err # "" THEN s1 ELSE DefaultPath(s1, a, hname)
               IN PromoteHttp(s2, a, Tail(names))

\* the object whose path the API loop defaults: line 602 reads rdef[hname],
\* and hname still holds what the HTTP loop left in it, its last name
ApiPathOwner_aname(aname) == aname
ApiPathOwner(aname) == RIML_HTTP_PROPS[Len(RIML_HTTP_PROPS)]

RECURSIVE PromoteApi(_, _, _)
\* lines 594-605
PromoteApi(s, a, names) ==
  IF names = <<>> \/ s.err # "" THEN s
  ELSE LET aname == Head(names)
       IN IF ~Has(s.h[a], aname) THEN PromoteApi(s, a, Tail(names))
          ELSE LET s1 == Stamp(Coerce(s, a, aname), a, aname, K("apiType"), Str(aname))
                   s2 == IF s1.err # "" THEN s1
                         ELSE DefaultPath(s1, a, ApiPathOwner(aname))
               IN PromoteApi(s2, a, Tail(names))

NewProps ==
  << <<K("virtual"), Bool(FALSE)>>, <<K("noPath"), Bool(FALSE)>>,
     <<K("defaultRoute"), Bool(FALSE)>> >>

\* lines 570-577
Markers(props, rdef, rname) ==
  IF Truthy(Get(rdef, <<".", "controller">>)) /\ ~Has(props, K("controller"))
  THEN Put(props, K("controller"), Str(rname))
  ELSE IF Truthy(Get(rdef, <<".", "method">>)) /\ ~Has(props, K("method"))
  THEN Put(props, K("method"), Str(rname))
  ELSE props

\* lines 578-581
PathDefault(props, rname) ==
  IF ~Has(props, K("path")) /\ ~Truthy(Get(props, K("noPath")))
  THEN Put(props, K("path"), Str(rname))
  ELSE props

RECURSIVE RimlRoute(_, _, _, _), addRoutes(_, _, _, _)

\* new RimlRoute(rname, rdef, parent), pushed on the parent's routes.
\* st = [h, routes, opts, err]; the Route gets the next index of st.routes.
RimlRoute(st, rname, rdefv, parent) ==
  IF st.err # "" THEN st
  ELSE IF rdefv.k = "null" THEN [st EXCEPT !.err = "TypeError"]  \* pname in null
  ELSE
    LET fresh == TypeOf(rdefv) # "object"
        h0    == IF fresh THEN Append(st.h, <<>>) ELSE st.h
        a     == IF fresh THEN Len(st.h) + 1 ELSE rdefv.a
        me    == Len(st.routes) + 1
        allow == RIML_COMMON_PROPS \o RIML_ROUTE_PROPS
        p1    == CopyProps(NewProps, h0[a], allow)
        m1    == DropProps(h0[a], allow)
        p3    == PathDefault(Markers(p1, m1, rname), rname)
        s1    == [h |-> [h0 EXCEPT ![a] = m1], err |-> ""]
        s3    == PromoteApi(PromoteHttp(s1, a, RIML_HTTP_PROPS), a, RIML_API_PROPS)
        route == [name |-> rname, parent |-> parent, props |-> p3,
                  options |-> <<>>, src |-> a,
                  walked |-> IF s3.err = "" THEN s3.h[a] ELSE <<>>]
        st1   == [st EXCEPT !.h = s3.h, !.err = s3.err,
                            !.routes = Append(@, route)]
    IN IF s3.err # "" THEN st1
       ELSE addRoutes(st1, a, me, Keys(s3.h[a]))

\* addRoutes on the object at a, for the keys left to visit
addRoutes(st, a, owner, keys) ==
  IF keys = <<>> \/ st.err # "" THEN st
  ELSE
    LET rname == Head(keys)
        rdef  == Get(st.h[a], rname)
    IN IF SkipsValue(rdef) THEN addRoutes(st, a, owner, Tail(keys))
       ELSE IF IsOptionKey(rname)
       THEN addRoutes(SetOption(st, owner, OptionName(rname), rdef),
                      a, owner, Tail(keys))
       ELSE addRoutes(RimlRoute(st, rname, rdef, owner), a, owner, Tail(keys))

\* lines 210-220 of the constructor, on a source that is an object
Construct(h, src) ==
  LET a   == src.a
      dp  == CopyProps(<<>>, h[a], RIML_COMMON_PROPS)
      m1  == DropProps(h[a], RIML_COMMON_PROPS)
      st0 == [h |-> [h EXCEPT ![a] = m1], routes |-> <<>>, opts |-> <<>>, err |-> ""]
  IN [props |-> dp, walked |-> m1, st |-> addRoutes(st0, a, 0, Keys(m1))]

\* The end of the constructor: the Document, or the error thrown
Finish(h, src) ==
  LET c == Construct(h, src)
  IN /\ heap' = c.st.h
     /\ routes' = c.st.routes
     /\ docOptions' = c.st.opts
     /\ docProps' = c.props
     /\ docWalked' = c.walked
     /\ error' = c.st.err
     /\ status' = IF c.st.err = "" THEN "done" ELSE "failed"

----------------------------------------------------------------------------
(* Compiling a parsed mapping: new RIML({data: ...}) *)

RouteDefs ==
  { Seg(K("path"), p) \o Seg(K("GET"), g) \o Seg(K("HEAD"), hd)
      \o Seg(K("json"), j) \o Seg(<<".", "o">>, o) :
      p  \in {Absent, LStr(K("p"))},
      g  \in {Absent, LStr(K("x")), LNull, LObj(<<>>)},
      hd \in {Absent, LObj(<<>>)},
      j  \in {Absent, LStr(K("x")), LObj(<< <<K("path"), LStr(K("j"))>> >>)},
      o  \in {Absent, LNull, LStr(K("v"))} }

DataDocs ==
  { Seg(K("title"), t) \o Seg(<<".", "opt">>, o) \o Seg(K("posts"), p)
      \o Seg(K("users"), u) :
      t \in {Absent, LStr(K("T"))},
      o \in {Absent, LNull, LBool(TRUE)},
      p \in {Absent, LNull, LStr(K("x"))},
      u \in {Absent} \cup { LObj(d) : d \in RouteDefs } }

InitData ==
  /\ raw \in { LObj(d) : d \in DataDocs }
  /\ heap = Load(<<>>, raw).h
  /\ source = Load(<<>>, raw).v
  /\ status = "init"
  /\ error = ""
  /\ docProps = <<>> /\ docOptions = <<>> /\ docWalked = <<>> /\ routes = <<>>
  /\ fs = <<>> /\ included = <<>> /\ sources = <<>> /\ stack = <<>> /\ refs = <<>>
  /\ traits = <<>> /\ defs = <<>> /\ uses = <<>>

UnchangedLoader == UNCHANGED <<fs, included, sources, stack, refs>>
UnchangedTraits == UNCHANGED <<traits, defs, uses>>

CompileData ==
  /\ status = "init"
  /\ Finish(heap, source)
  /\ UNCHANGED <<raw, source>>
  /\ UnchangedLoader /\ UnchangedTraits

NextData == CompileData

SpecData == InitData /\ [][NextData]_vars

----------------------------------------------------------------------------
(* Properties of the tree builder *)

\* a key that begins with the option prefix
DotKey(k) == k # <<>> /\ k[1] = "."

\* the Routes pushed on the routes of owner (0: the Document)
Children(owner) == { i \in 1..Len(routes) : routes[i].parent = owner }
WalkedBy(owner) == IF owner = 0 THEN docWalked ELSE routes[owner].walked
OptionsOf(owner) == IF owner = 0 THEN docOptions ELSE routes[owner].options

\* the top-level pairs of the document as written
TopPairs == raw.m
CountPairs(P(_)) == Cardinality({ i \in 1..Len(TopPairs) : P(TopPairs[i]) })

\* C8, as claimed: every option key of a walked mapping produces no Route and
\* is in the owner's options, prefix stripped, with its value, whatever it is.
C8_OptionKeysAnyValue ==
  status = "done" =>
    \A o \in 0..Len(routes) : \A j \in 1..Len(WalkedBy(o)) :
      LET k == WalkedBy(o)[j][1]
          v == WalkedBy(o)[j][2]
      IN DotKey(k) =>
           /\ \A c \in Children(o) : routes[c].name # k
           /\ Has(OptionsOf(o), Tail(k))
           /\ Get(OptionsOf(o), Tail(k)) = v

\* C8, amended: every option key of a walked mapping produces no Route; it is
\* in the owner's options, prefix stripped, with its value, when that value
\* is not null, and is left out of the options when it is null.
C8_OptionKeys ==
  status = "done" =>
    \A o \in 0..Len(routes) : \A j \in 1..Len(WalkedBy(o)) :
      LET k == WalkedBy(o)[j][1]
          v == WalkedBy(o)[j][2]
      IN DotKey(k) =>
           /\ \A c \in Children(o) : routes[c].name # k
           /\ v.k # "null" => /\ Has(OptionsOf(o), Tail(k))
                              /\ Get(OptionsOf(o), Tail(k)) = v
           /\ v.k = "null" => ~Has(OptionsOf(o), Tail(k))

\* a Route walked a non-null option beside a child Route, and the Document
\* walked a null option
C8_Witness ==
  /\ status = "done"
  /\ \E o \in 1..Len(routes) : \E j \in 1..Len(WalkedBy(o)) :
       /\ DotKey(WalkedBy(o)[j][1]) /\ WalkedBy(o)[j][2].k = "str"
       /\ Has(OptionsOf(o), Tail(WalkedBy(o)[j][1]))
       /\ Children(o) # {}
  /\ \E j \in 1..Len(docWalked) :
       DotKey(docWalked[j][1]) /\ docWalked[j][2].k = "null"

\* C9, as claimed: the Document has as many Routes as the source has
\* top-level keys that are not option keys and whose value is not null.
C9_RouteCountAllKeys ==
  status = "done" =>
    Cardinality(Children(0)) =
      CountPairs(LAMBDA p : ~DotKey(p[1]) /\ p[2].k # "null")

\* C9, amended: the Document has as many Routes as the source has top-level
\* keys that are not option keys, are not one of the six common properties
\* the constructor takes for the Document itself, and whose value is not null.
C9_RouteCount ==
  status = "done" =>
    Cardinality(Children(0)) =
      CountPairs(LAMBDA p : /\ ~DotKey(p[1]) /\ p[2].k # "null"
                            /\ p[1] \notin Range(RIML_COMMON_PROPS))

\* a compiled document with a common property, an option, a null and a Route
C9_Witness ==
  /\ status = "done"
  /\ Cardinality(Children(0)) = 1
  /\ Has(docProps, K("title"))
  /\ \E i, j \in 1..Len(TopPairs) :
       /\ DotKey(TopPairs[i][1]) /\ TopPairs[i][2].k # "null"
       /\ ~DotKey(TopPairs[j][1]) /\ TopPairs[j][2].k = "null"

\* the raw mapping of the Route "users", as written
UsersDef == Get(TopPairs, K("users"))
\* the Route built for key name of the Route "users"
ChildOfUsers(name) ==
  { c \in 1..Len(routes) :
      /\ routes[c].name = name /\ routes[c].parent # 0
      /\ routes[routes[c].parent].name = K("users")
      /\ routes[routes[c].parent].parent = 0 }

\* C10: a json key on a Route's raw mapping, whichever verb keys are present
\* (none of them null), becomes a child Route with apiType json whose path is
\* false unless the nested mapping had a path, and the build completes.
C10_ApiPromotion ==
  (/\ status # "init"
   /\ Has(TopPairs, K("users"))
   /\ Has(UsersDef.m, K("json"))
   /\ \A i \in 1..Len(UsersDef.m) : UsersDef.m[i][2].k # "null")
  => /\ status = "done"
     /\ \E c \in ChildOfUsers(K("json")) :
          /\ Get(routes[c].props, K("apiType")) = Str(K("json"))
          /\ Get(routes[c].props, K("path")) =
               IF Has(Get(UsersDef.m, K("json")).m, K("path"))
               THEN Str(Get(Get(UsersDef.m, K("json")).m, K("path")).s)
               ELSE Bool(FALSE)

----------------------------------------------------------------------------
(* Compiling a file: new RIML(filename), with !include and !includePath *)

\* the deepest chain of loadFile calls the engine's call stack holds
MaxDepth == 5

LInc(filename)     == [k |-> "include",     s |-> filename, a |-> 0, m |-> <<>>]
LIncPath(filename) == [k |-> "includePath", s |-> filename, a |-> 0, m |-> <<>>]
IsIncludeTag(lit)  == lit.k \in {"include", "includePath"}

\* path.dirname(filename)
Dirname(filename) ==
  IF \E i \in 1..Len(filename) : filename[i] = "/"
  THEN LET last == CHOOSE i \in 1..Len(filename) :
                     /\ filename[i] = "/"
                     /\ \A j \in (i + 1)..Len(filename) : filename[j] # "/"
       IN IF last = 1 THEN <<"/">> ELSE SubSeq(filename, 1, last - 1)
  ELSE <<".">>

\* path.join(confdir, filename), for a filename that begins with "/"
Join(confdir, filename) ==
  IF confdir = <<".">> THEN Tail(filename)
  ELSE IF confdir = <<"/">> THEN filename
  ELSE confdir \o filename

\* lines 353-356: a filename that begins with "/" is relative to confdir
Resolve(filename, confdir) ==
  IF filename # <<>> /\ Head(filename) = "/" THEN Join(confdir, filename)
  ELSE filename

\* lines 358-364: what a reference to a file already in this.included returns;
\* Undef when the reference falls through to loadFile
Memo(filename) ==
  IF Has(included, filename)
  THEN IF Truthy(Get(included, filename)) THEN Null
       ELSE IF Has(sources, filename) THEN Get(sources, filename)
       ELSE Undef
  ELSE Undef

\* line 377: the loaded mapping declares itself reusable
IsPoly(m) == Truthy(Get(m, <<".", "includePoly">>))

\* lines 366-383: the mark this.included gets for a loaded value
Mark_false(h, yaml) == FALSE
Mark(h, yaml) == ~(yaml.k = "obj" /\ IsPoly(h[yaml.a]))

\* lines 367-376: the defaults includeFile sets on a loaded mapping
Defaults(m, setNoPath) ==
  LET m1 == IF Has(m, K("virtual")) THEN m ELSE Put(m, K("virtual"), Bool(TRUE))
  IN IF setNoPath /\ ~Has(m1, K("noPath")) THEN Put(m1, K("noPath"), Bool(TRUE))
     ELSE m1

Top == stack[Len(stack)]
Pop == SubSeq(stack, 1, Len(stack) - 1)
Frame(path, lit, setNoPath) ==
  [path |-> path, confdir |-> Dirname(path),
   todo |-> IF lit.k = "obj" THEN lit.m ELSE <<>>,
   acc |-> <<>>, scalar |-> IF lit.k = "obj" THEN Absent ELSE lit,
   setNoPath |-> setNoPath]

\* the node being constructed, and the file its tag names
Node == Head(Top.todo)
Target == Resolve(Node[2].s, Top.confdir)

UnchangedDoc == UNCHANGED <<docProps, docOptions, docWalked, routes>>
Fail(name) ==
  /\ status' = "failed" /\ error' = name
  /\ UNCHANGED <<heap, source, included, sources, stack, refs>>

\* the constructor's loadFile(source)
StartLoad ==
  /\ status = "init"
  /\ stack' = << Frame(source.s, Get(fs, source.s), FALSE) >>
  /\ status' = "loading"
  /\ UNCHANGED <<heap, error, raw, source, fs, included, sources, refs>>
  /\ UnchangedDoc /\ UnchangedTraits

\* yaml.load constructs the next node of the file, an untagged one
PlainNode ==
  /\ status = "loading" /\ Top.todo # <<>> /\ ~IsIncludeTag(Node[2])
  /\ LET r == Load(heap, Node[2])
     IN /\ heap' = r.h
        /\ stack' = [stack EXCEPT ![Len(stack)].todo = Tail(@),
                                  ![Len(stack)].acc = Append(@, <<Node[1], r.v>>)]
  /\ UNCHANGED <<status, error, raw, source, fs, included, sources, refs>>
  /\ UnchangedDoc /\ UnchangedTraits

\* includeFile on a file already in this.included: null or the retained mapping
IncludeMemo ==
  /\ status = "loading" /\ Top.todo # <<>> /\ IsIncludeTag(Node[2])
  /\ Memo(Target) # Undef
  /\ stack' = [stack EXCEPT ![Len(stack)].todo = Tail(@),
                            ![Len(stack)].acc = Append(@, <<Node[1], Memo(Target)>>)]
  /\ refs' = Append(refs, [path |-> Target, ret |-> Memo(Target), loaded |-> FALSE])
  /\ UNCHANGED <<heap, status, error, raw, source, fs, included, sources>>
  /\ UnchangedDoc /\ UnchangedTraits

\* includeFile reaches loadFile: the file is read and its parse begins
IncludeLoad ==
  /\ status = "loading" /\ Top.todo # <<>> /\ IsIncludeTag(Node[2])
  /\ Memo(Target) = Undef
  /\ Has(fs, Target) /\ Len(stack) < MaxDepth
  /\ stack' = Append(stack, Frame(Target, Get(fs, Target), Node[2].k = "include"))
  /\ UNCHANGED <<heap, status, error, raw, source, fs, included, sources, refs>>
  /\ UnchangedDoc /\ UnchangedTraits

\* readFileSync of a file that does not exist
IncludeMissing ==
  /\ status = "loading" /\ Top.todo # <<>> /\ IsIncludeTag(Node[2])
  /\ Memo(Target) = Undef
  /\ ~Has(fs, Target)
  /\ Fail("ENOENT")
  /\ UNCHANGED <<raw, fs>> /\ UnchangedDoc /\ UnchangedTraits

\* the chain of loadFile calls outgrows the call stack
IncludeOverflow ==
  /\ status = "loading" /\ Top.todo # <<>> /\ IsIncludeTag(Node[2])
  /\ Memo(Target) = Undef
  /\ Has(fs, Target) /\ Len(stack) >= MaxDepth
  /\ Fail("RangeError")
  /\ UNCHANGED <<raw, fs>> /\ UnchangedDoc /\ UnchangedTraits

\* what yaml.load returns for the file of the top frame
Loaded ==
  IF Top.scalar = Absent
  THEN [h |-> Append(heap, Top.acc), v |-> Obj(Len(heap) + 1)]
  ELSE Load(heap, Top.scalar)

\* loadFile returns to includeFile, which sets the defaults, records the file
\* and returns the value to the including file's parse
IncludeReturn ==
  /\ status = "loading" /\ Top.todo = <<>> /\ Len(stack) > 1
  /\ LET yaml == Loaded.v
         h1   == IF yaml.k = "obj"
                 THEN [Loaded.h EXCEPT ![yaml.a] = Defaults(@, Top.setNoPath)]
                 ELSE Loaded.h
         mark == Mark(h1, yaml)
         key  == Head(stack[Len(stack) - 1].todo)[1]
     IN /\ heap' = h1
        /\ sources' = IF yaml.k = "obj" /\ IsPoly(h1[yaml.a])
                      THEN Put(sources, Top.path, yaml) ELSE sources
        /\ included' = Put(included, Top.path, Bool(mark))
        /\ refs' = Append(refs, [path |-> Top.path, ret |-> yaml, loaded |-> TRUE])
        /\ stack' = [Pop EXCEPT ![Len(stack) - 1].todo = Tail(@),
                                ![Len(stack) - 1].acc = Append(@, <<key, yaml>>)]
  /\ UNCHANGED <<status, error, raw, source, fs>>
  /\ UnchangedDoc /\ UnchangedTraits

\* the constructor's loadFile returns, and the constructor builds the tree
MainReturn ==
  /\ status = "loading" /\ Top.todo = <<>> /\ Len(stack) = 1
  /\ stack' = <<>>
  /\ Finish(Loaded.h, Loaded.v)
  /\ UNCHANGED <<raw, source, fs, included, sources, refs>>
  /\ UnchangedTraits

MainPath == <<"conf", "/", "main">>
PathA    == <<"conf", "/", "a">>
PathB    == <<"conf", "/", "b">>
PathSubA == <<"conf", "/", "sub", "/", "a">>

Poly == <<".", "includePoly">>

MainFiles ==
  { LObj(Seg(K("x"), x) \o Seg(K("y"), y) \o Seg(K("z"), z)) :
      x \in {LInc(<<"/", "a">>), LIncPath(<<"conf", "/", "a">>), LInc(<<"/", "b">>)},
      y \in {Absent, LInc(<<"/", "a">>), LInc(<<"/", "b">>), LInc(<<"/", "sub", "/", "a">>)},
      z \in {Absent, LIncPath(<<"/", "a">>), LInc(<<"/", "missing">>)} }

AFiles ==
  { LObj(Seg(K("title"), LStr(K("T"))) \o Seg(Poly, p) \o Seg(K("r"), r)) :
      p \in {Absent, LBool(TRUE)},
      r \in {Absent, LObj(<<>>), LInc(<<"/", "b">>), LInc(<<"/", "a">>),
             LInc(<<"/", "main">>)} }

BFiles ==
  { LStr(K("text")) } \cup
  { LObj(Seg(Poly, p) \o Seg(K("s"), r)) :
      p \in {Absent, LBool(TRUE)},
      r \in {Absent, LInc(<<"/", "a">>)} }

SubAFiles ==
  { LObj(Seg(K("t"), r)) :
      r \in {Absent, LInc(<<"/", "a">>), LInc(<<"conf", "/", "a">>)} }

InitFiles ==
  /\ \E m \in MainFiles, fa \in AFiles, fb \in BFiles, fsa \in SubAFiles :
       fs = << <<MainPath, m>>, <<PathA, fa>>, <<PathB, fb>>, <<PathSubA, fsa>> >>
  /\ raw = LStr(MainPath)
  /\ source = Str(MainPath)
  /\ heap = <<>>
  /\ status = "init"
  /\ error = ""
  /\ docProps = <<>> /\ docOptions = <<>> /\ docWalked = <<>> /\ routes = <<>>
  /\ included = <<>> /\ sources = <<>> /\ stack = <<>> /\ refs = <<>>
  /\ traits = <<>> /\ defs = <<>> /\ uses = <<>>

NextFiles ==
  \/ StartLoad
  \/ PlainNode
  \/ IncludeMemo
  \/ IncludeLoad
  \/ IncludeMissing
  \/ IncludeOverflow
  \/ IncludeReturn
  \/ MainReturn

SpecFiles == InitFiles /\ [][NextFiles]_vars

----------------------------------------------------------------------------
(* Properties of file inclusion *)

FilePaths == { fs[i][1] : i \in 1..Len(fs) }
FileLit(p) == Get(fs, p)

\* the files the include tags of file p name
Includes(p) ==
  IF p \in FilePaths /\ FileLit(p).k = "obj"
  THEN { Resolve(FileLit(p).m[i][2].s, Dirname(p)) :
           i \in { j \in 1..Len(FileLit(p).m) : IsIncludeTag(FileLit(p).m[j][2]) } }
  ELSE {}

RECURSIVE Closure(_)
Closure(S) ==
  LET N == S \cup UNION { Includes(q) : q \in S }
  IN IF N = S THEN S ELSE Closure(N)

\* the files p includes, directly or through other files
Below(p) == Closure(Includes(p))
SelfIncluding(p) == p \in Below(p)
PolyFile(p) ==
  p \in FilePaths /\ FileLit(p).k = "obj" /\ Truthy(Get(FileLit(p).m, Poly))
UnderPoly(p) == \E q \in FilePaths : PolyFile(q) /\ p \in Below(q)

RefsTo(p) == { i \in 1..Len(refs) : refs[i].path = p }
FirstRef(p) == CHOOSE i \in RefsTo(p) : \A j \in RefsTo(p) : i <= j
RoutesFrom(a) == { r \in 1..Len(routes) : routes[r].src = a }
ChildNames(r) == { routes[c].name : c \in Children(r) }

C2_PolySameContent ==
  \A p \in FilePaths :
    (RefsTo(p) # {} /\ PolyFile(p)) =>
      /\ \A i \in RefsTo(p) :
           refs[i].ret.k = "obj" /\ refs[i].ret = refs[FirstRef(p)].ret
      /\ status = "done" =>
           \A r1, r2 \in RoutesFrom(refs[FirstRef(p)].ret.a) :
             /\ Del(routes[r1].props, K("path")) = Del(routes[r2].props, K("path"))
             /\ ChildNames(r1) = ChildNames(r2)

\* C3: the chain of loadFile calls in progress never holds a file twice, so
\* it is no longer than the number of files and the compile comes to an end
\* by itself, not by exhausting the call stack.
C3_CyclesTerminate ==
  /\ \A i, j \in 1..Len(stack) : i # j => stack[i].path # stack[j].path
  /\ error # "RangeError"

----------------------------------------------------------------------------
(* Traits: !define and !use *)

TraitKey        == <<".", "trait">>
TraitsKey       == <<".", "traits">>
VarsKey         == <<".", "vars">>
PlaceholdersKey == <<".", "placeholders">>

\* String(v)
StringOf(v) ==
  CASE v.k = "str"   -> v.s
    [] v.k = "bool"  -> v.s
    [] v.k = "null"  -> <<"null">>
    [] v.k = "nan"   -> <<"NaN">>
    [] v.k = "undef" -> <<"undefined">>
    [] OTHER         -> <<"[object Object]">>

\* the values of an object, in key order
Values(m) == [i \in 1..Len(m) |-> m[i][2]]

\* line 417: JSON.parse(JSON.stringify(v)).  Every object is copied to a
\* fresh one; NaN becomes null.
RECURSIVE Clone(_, _), ClonePairs(_, _, _)
Clone_shared(h, v) == [h |-> h, v |-> v]
Clone(h, v) ==
  IF v.k = "obj"
  THEN LET r == ClonePairs(h, h[v.a], <<>>)
       IN [h |-> Append(r.h, r.m), v |-> Obj(Len(r.h) + 1)]
  ELSE IF v.k = "nan" THEN [h |-> h, v |-> Null]
  ELSE [h |-> h, v |-> v]
ClonePairs(h, pairs, acc) ==
  IF pairs = <<>> THEN [h |-> h, m |-> acc]
  ELSE LET r == Clone(h, pairs[1][2])
       IN ClonePairs(r.h, Tail(pairs), Append(acc, <<pairs[1][1], r.v>>))

\* lines 387-399: the registry after !define of the object at d
defineMetadata(h, reg, d) ==
  IF Has(h[d], TraitKey)
  THEN [h |-> [h EXCEPT ![d] = Del(@, TraitKey)],
        reg |-> Put(reg, StringOf(Get(h[d], TraitKey)), Obj(d))]
  ELSE [h |-> h, reg |-> reg]

\* line 476: varpath.replace(/^\||\|$/gm, '')
StripPipes(t) ==
  LET t1 == IF t # <<>> /\ Head(t) = "|" THEN Tail(t) ELSE t
  IN IF t1 # <<>> /\ t1[Len(t1)] = "|" THEN SubSeq(t1, 1, Len(t1) - 1) ELSE t1

RECURSIVE Split(_, _, _)
\* line 476: .split('|'); cur is the segment being read
Split(t, cur, acc) ==
  IF t = <<>> THEN Append(acc, cur)
  ELSE IF Head(t) = "|" THEN Split(Tail(t), <<>>, Append(acc, cur))
  ELSE Split(Tail(t), Append(cur, Head(t)), acc)

\* line 507: text.replace(pat, rep), the first occurrence of pat
Replace(text, pat, rep) ==
  LET at == { i \in 1..(Len(text) - Len(pat) + 1) :
                SubSeq(text, i, i + Len(pat) - 1) = pat }
  IN IF at = {} THEN text
     ELSE LET i == CHOOSE x \in at : \A y \in at : x <= y
          IN SubSeq(text, 1, i - 1) \o rep \o SubSeq(text, i + Len(pat), Len(text))

RECURSIVE Walk(_, _, _)
\* lines 485-504: follow the path from tdata; found: a string was met
Walk(h, tdata, path) ==
  IF path = <<>> THEN [tdata |-> tdata, found |-> FALSE, textitem |-> <<>>, err |-> ""]
  ELSE IF tdata.k # "obj"
  THEN [tdata |-> tdata, found |-> FALSE, textitem |-> <<>>, err |-> "TypeError"]
  ELSE LET varp == Head(path)
           v    == Get(h[tdata.a], varp)
       IN IF v.k = "undef" THEN Walk(h, tdata, Tail(path))
          ELSE IF TypeOf(v) = "string"
          THEN [tdata |-> tdata, found |-> TRUE, textitem |-> varp, err |-> ""]
          ELSE IF TypeOf(v) = "object" THEN Walk(h, v, Tail(path))
          ELSE [tdata |-> tdata, found |-> FALSE, textitem |-> <<>>,
                err |-> "Invalid variable path spec"]

\* line 478: the path is skipped
Skipped_never(consumed, firstitem) == FALSE
Skipped(consumed, firstitem) == Get(consumed, firstitem) = Bool(FALSE)

\* lines 475-512: one path of a placeholder; s = [h, err, consumed, applied]
ApplyPath(s, d, varpath, value) ==
  IF varpath.k # "str" THEN [s EXCEPT !.err = "TypeError"]
  ELSE
    LET varpaths == Split(StripPipes(varpath.s), <<>>, <<>>)
        lastitem == varpaths[Len(varpaths)]
        w == Walk(s.h, Obj(d), SubSeq(varpaths, 1, Len(varpaths) - 1))
    IN IF Skipped(s.consumed, varpaths[1]) THEN s
       ELSE IF w.err # "" THEN [s EXCEPT !.err = w.err]
       ELSE IF w.found
       THEN [s EXCEPT !.h[w.tdata.a] =
               Put(@, w.textitem,
                   Str(Replace(Get(@, w.textitem).s, lastitem, StringOf(value))))]
       ELSE IF w.tdata.k # "obj" THEN [s EXCEPT !.err = "TypeError"]
       ELSE IF Has(s.h[w.tdata.a], lastitem)
       THEN [s EXCEPT !.h[w.tdata.a] = Put(@, lastitem, value)]
       ELSE s

RECURSIVE EachPath(_, _, _, _)
EachPath(s, d, paths, value) ==
  IF paths = <<>> \/ s.err # "" THEN s
  ELSE EachPath(ApplyPath(s, d, Head(paths), value), d, Tail(paths), value)

RECURSIVE EachVar(_, _, _)
\* lines 464-519: the variables of .placeholders, in order
EachVar(s, d, phs) ==
  IF phs = <<>> \/ s.err # "" THEN s
  ELSE
    LET varname == phs[1][1]
        spec    == phs[1][2]
        dv      == Get(s.h[d], VarsKey)
    IN IF varname = VarsKey THEN EachVar(s, d, Tail(phs))
       ELSE IF dv.k = "undef" THEN [s EXCEPT !.err = "Unfulfilled variable"]
       ELSE IF dv.k # "obj" THEN [s EXCEPT !.err = "TypeError"]
       ELSE IF ~Has(s.h[dv.a], varname)
       THEN [s EXCEPT !.err = "Unfulfilled variable"]
       ELSE LET paths == IF spec.k = "str" THEN <<spec>>
                         ELSE IF spec.k = "obj" THEN Values(s.h[spec.a])
                         ELSE <<>>
            IN EachVar(EachPath(s, d, paths, Get(s.h[dv.a], varname)), d, Tail(phs))

\* lines 459-521
handlePlaceholders(s, d, c) ==
  LET ph == Get(s.h[c], PlaceholdersKey)
  IN IF ph.k = "obj" THEN EachVar(s, d, s.h[ph.a]) ELSE s

\* lines 421-450: one property of the trait's clone (at c) onto data (at d)
MergeProp(s, d, c, tprop) ==
  LET dv == Get(s.h[d], tprop)
      tv == Get(s.h[c], tprop)
  IN IF tprop = PlaceholdersKey THEN s
     ELSE IF tprop = VarsKey
     THEN IF dv.k = "undef" THEN [s EXCEPT !.h[d] = Put(@, tprop, tv)]
          ELSE IF tv.k # "obj" \/ s.h[tv.a] = <<>> THEN s
          ELSE IF dv.k = "null" THEN [s EXCEPT !.err = "TypeError"]
          ELSE IF dv.k # "obj" THEN s
          ELSE [s EXCEPT !.h[dv.a] =
                  @ \o SelectSeq(s.h[tv.a], LAMBDA p : ~Has(s.h[dv.a], p[1]))]
     ELSE IF dv.k = "undef"
     THEN [s EXCEPT !.h[d] = Put(@, tprop, tv),
                    !.consumed = Put(@, tprop, Bool(TRUE))]
     ELSE [s EXCEPT !.consumed = Put(@, tprop, Bool(FALSE))]

RECURSIVE MergeProps(_, _, _, _)
MergeProps(s, d, c, tprops) ==
  IF tprops = <<>> \/ s.err # "" THEN s
  ELSE MergeProps(MergeProp(s, d, c, Head(tprops)), d, c, Tail(tprops))

\* lines 417-452: one registered trait applied to data
ApplyTrait(s, d, reg, tname) ==
  LET cl == Clone(s.h, Get(reg, tname))
      s0 == [s EXCEPT !.h = cl.h, !.consumed = <<>>,
                      !.applied = Append(@, tname)]
      s1 == MergeProps(s0, d, cl.v.a, Keys(cl.h[cl.v.a]))
  IN IF s1.err # "" THEN s1 ELSE handlePlaceholders(s1, d, cl.v.a)

RECURSIVE EachTrait(_, _, _, _)
\* lines 412-454
EachTrait(s, d, reg, tnames) ==
  IF tnames = <<>> \/ s.err # "" THEN s
  ELSE EachTrait(IF Has(reg, StringOf(Head(tnames)))
                 THEN ApplyTrait(s, d, reg, StringOf(Head(tnames)))
                 ELSE s,
                 d, reg, Tail(tnames))

\* lines 406-407: the key data[tprop] names.  tprop is the loop variable of
\* line 419, declared for the whole function and not yet assigned here.
Tprop == K("undefined")

\* lines 401-457: !use of the object at d
useMetadata(h, reg, d) ==
  LET s0 == [h |-> h, err |-> "", consumed |-> <<>>, applied |-> <<>>]
  IN IF ~Has(h[d], TraitsKey) THEN s0
     ELSE LET ts == Get(h[d], Tprop)
              s1 == [s0 EXCEPT !.h[d] = Del(@, Tprop)]
          IN IF ts.k = "str" THEN EachTrait(s1, d, reg, <<ts>>)
             ELSE IF ts.k = "undef" THEN [s1 EXCEPT !.err = "TypeError"]
             ELSE IF ts.k = "obj" THEN EachTrait(s1, d, reg, Values(s1.h[ts.a]))
             ELSE s1

RECURSIVE Deep(_, _), DeepPairs(_, _)
\* the value v with every object written out
Deep(h, v) ==
  IF v.k = "obj" THEN LObj(DeepPairs(h, h[v.a]))
  ELSE [k |-> v.k, s |-> v.s, a |-> 0, m |-> <<>>]
DeepPairs(h, pairs) ==
  [i \in 1..Len(pairs) |-> <<pairs[i][1], Deep(h, pairs[i][2])>>]

----------------------------------------------------------------------------
(* Parsing a document that holds !define and !use nodes *)

\* the most tagged nodes of one document
MaxTags == 3

LSeq2(x, y) == LObj(<< <<K("0"), x>>, <<K("1"), y>> >>)

\* the mappings tagged !define
TraitLits ==
  { LObj(<< <<TraitKey, LStr(K("auth"))>>, <<K("header"), LStr(K("X-Token"))>>,
            <<PlaceholdersKey, LObj(<< <<K("token"), LStr(p)>> >>)>> >>) :
      p \in { K("header"), <<"x", "|", "header">> } }
  \cup
  { LObj(<< <<TraitKey, LStr(K("err"))>>,
            <<K("body"), LObj(<< <<K("msg"), LStr(<<"Error ", "CODE">>)>>,
                                 <<K("code"), LNan>> >>)>> >>
         \o Seg(VarsKey, v)
         \o << <<PlaceholdersKey, LObj(<< <<K("code"), p>> >>)>> >>) :
      v \in { Absent, LObj(<< <<K("code"), LStr(K("500"))>> >>) },
      p \in { LSeq2(LStr(<<"|", "body", "|", "msg", "|", "CODE", "|">>),
                    LStr(<<"body", "|", "code">>)),
              LStr(<<"body", "|", "code", "|", "x">>) } }
  \cup
  { LObj(<< <<K("title"), LStr(K("T"))>> >>) }

\* the mappings tagged !use
UseLits ==
  { LObj(<< <<TraitsKey, LStr(K("auth"))>> >>
         \o Seg(Tprop, u) \o Seg(K("header"), hd) \o Seg(VarsKey, v)) :
      u  \in { Absent, LStr(K("auth")) },
      hd \in { Absent, LStr(K("own")) },
      v  \in { Absent, LObj(<< <<K("token"), LStr(K("abc"))>> >>) } }
  \cup
  { LObj(<< <<TraitsKey, LStr(K("err"))>>, <<Tprop, u>> >>
         \o Seg(K("body"), b) \o Seg(VarsKey, v)) :
      u \in { LStr(K("err")), LSeq2(LStr(K("err")), LStr(K("auth"))) },
      b \in { Absent, LObj(<< <<K("msg"), LStr(<<"mine ", "CODE">>)>> >>) },
      v \in { Absent, LObj(<< <<K("code"), LStr(K("404"))>>,
                              <<K("token"), LStr(K("abc"))>> >>) } }
  \cup
  { LObj(<< <<Tprop, LStr(K("auth"))>>,
            <<VarsKey, LObj(<< <<K("token"), LStr(K("abc"))>> >>)>> >>),
    LObj(<< <<TraitsKey, LStr(K("auth"))>>, <<Tprop, LBool(TRUE)>> >>) }

InitTags ==
  /\ raw = LNull /\ source = Null
  /\ heap = <<>>
  /\ status = "loading"
  /\ error = ""
  /\ docProps = <<>> /\ docOptions = <<>> /\ docWalked = <<>> /\ routes = <<>>
  /\ fs = <<>> /\ included = <<>> /\ sources = <<>> /\ stack = <<>> /\ refs = <<>>
  /\ traits = <<>> /\ defs = <<>> /\ uses = <<>>

Tags == Len(defs) + Len(uses)

\* yaml.load constructs a !define node
Define ==
  /\ status = "loading" /\ Tags < MaxTags
  /\ \E lit \in TraitLits :
       LET ld == Load(heap, lit)
           r  == defineMetadata(ld.h, traits, ld.v.a)
       IN /\ heap' = r.h
          /\ traits' = r.reg
          /\ defs' = Append(defs, lit)
  /\ UNCHANGED <<status, error, raw, source, uses>>
  /\ UnchangedDoc /\ UnchangedLoader

\* yaml.load constructs a !use node
Use ==
  /\ status = "loading" /\ Tags < MaxTags
  /\ \E lit \in UseLits :
       LET ld == Load(heap, lit)
           r  == useMetadata(ld.h, traits, ld.v.a)
       IN /\ heap' = r.h
          /\ error' = r.err
          /\ status' = IF r.err = "" THEN "loading" ELSE "failed"
          /\ uses' = Append(uses,
               [lit |-> lit, ret |-> ld.v, err |-> r.err, applied |-> r.applied,
                reg |-> [i \in 1..Len(traits) |->
                           <<traits[i][1], Deep(heap, traits[i][2])>>],
                out |-> Deep(r.h, ld.v)])
  /\ UNCHANGED <<raw, source, traits, defs>>
  /\ UnchangedDoc /\ UnchangedLoader

NextTags ==
  \/ Define
  \/ Use

SpecTags == InitTags /\ [][NextTags]_vars

----------------------------------------------------------------------------
(* Properties of traits *)

\* the pairs of the mapping under key k of a literal mapping, <<>> when none
Sub(lit, k) == IF Has(lit.m, k) THEN Get(lit.m, k).m ELSE <<>>
\* the text under key k of a literal mapping
Text(lit, k) == IF Has(lit.m, k) THEN Get(lit.m, k).s ELSE <<>>

\* the fields a trait fragment provides
Fields(t) == Range(Keys(t.m)) \ {PlaceholdersKey, VarsKey}

\* what the last !define of this name stored: the mapping less its .trait key
Defined(name) ==
  LET D == { i \in 1..Len(defs) : Has(defs[i].m, TraitKey) /\ Text(defs[i], TraitKey) = name }
      last == CHOOSE i \in D : \A j \in D : j <= i
  IN LObj(Del(defs[last].m, TraitKey))

RECURSIVE Reach(_, _)
\* the objects a value is made of
Reach(h, v) ==
  IF v.k = "obj"
  THEN {v.a} \cup UNION { Reach(h, h[v.a][i][2]) : i \in 1..Len(h[v.a]) }
  ELSE {}

Registry == UNION { Reach(heap, traits[i][2]) : i \in 1..Len(traits) }
Returned == { i \in 1..Len(uses) : uses[i].err = "" }

\* C4: a registered trait with a top-level field f and a placeholder v -> f,
\* used by a mapping that names it in .traits, gives .vars[v] = x and has no
\* f of its own: !use returns the mapping with f = x.
C4_PlaceholderFills ==
  \A i \in 1..Len(uses) :
    LET u == uses[i]
        n == Text(u.lit, TraitsKey)
    IN (Has(u.lit.m, TraitsKey) /\ Has(u.reg, n)) =>
         \A f \in Fields(Get(u.reg, n)) : \A v \in Range(Keys(Sub(u.lit, VarsKey))) :
           (/\ Get(Sub(Get(u.reg, n), PlaceholdersKey), v) = LStr(f)
            /\ ~Has(u.lit.m, f))
           => /\ u.err = ""
              /\ Get(u.out.m, f) = Get(Sub(u.lit, VarsKey), v)

\* C5: the fragment the registry holds under each name is what !define
\* stored; no object of a returned mapping is part of another returned
\* mapping or of the registry; and a returned mapping stays as it was
\* returned, whatever is defined or used after it.
C5_TraitsUntouched ==
  /\ \A i \in 1..Len(traits) : Deep(heap, traits[i][2]) = Defined(traits[i][1])
  /\ \A i \in Returned :
       /\ Reach(heap, uses[i].ret) \cap Registry = {}
       /\ Deep(heap, uses[i].ret) = uses[i].out
       /\ \A j \in Returned \ {i} :
            Reach(heap, uses[i].ret) \cap Reach(heap, uses[j].ret) = {}

\* one trait applied to two mappings with different .vars, each substituted
\* into the nested mapping the trait brought
C5_Witness ==
  \E i, j \in Returned :
    /\ i < j
    /\ uses[i].applied = <<K("err")>> /\ uses[j].applied = <<K("err")>>
    /\ Sub(uses[i].lit, VarsKey) # Sub(uses[j].lit, VarsKey)
    /\ Text(Get(uses[i].out.m, K("body")), K("msg")) = <<"Error ", "500">>
    /\ Text(Get(uses[j].out.m, K("body")), K("msg")) = <<"Error ", "404">>
    /\ Text(Get(Defined(K("err")).m, K("body")), K("msg")) = <<"Error ", "CODE">>

\* C6: when !use has applied a trait, every field the trait provides that the
\* using mapping defined itself still holds the using mapping's own value.
C6_OwnValueKept ==
  \A i \in Returned :
    LET u == uses[i]
    IN \A n \in Range(u.applied) : \A f \in Fields(Get(u.reg, n)) :
         Has(u.lit.m, f) => Get(u.out.m, f) = Get(u.lit.m, f)

\* C7: a mapping that names a registered trait in .traits, the trait
\* declaring a placeholder variable that neither the mapping's .vars nor the
\* trait's .vars gives: !use fails with "Unfulfilled variable".
C7_Unfulfilled ==
  \A i \in 1..Len(uses) :
    LET u == uses[i]
        n == Text(u.lit, TraitsKey)
    IN (/\ Has(u.lit.m, TraitsKey) /\ Has(u.reg, n)
        /\ \E v \in Range(Keys(Sub(Get(u.reg, n), PlaceholdersKey))) :
             /\ ~Has(Sub(u.lit, VarsKey), v)
             /\ ~Has(Sub(Get(u.reg, n), VarsKey), v))
       => /\ u.err = "Unfulfilled variable"
          /\ status = "failed"

====
